---- MODULE Spec2Model ----
(***************************************************************************)
(* A model of the meowlouder capture -> encode -> decode -> playback       *)
(* pipeline (crates/meowlouder/src/main.rs) and of the parts of the Opus   *)
(* bridge it calls (crates/opus/src).                                      *)
(*                                                                         *)
(* Samples are signed 16-bit integers.  The capture device hands the       *)
(* capture callback consecutive sample values 1, 2, 3, ... so that loss,   *)
(* duplication and reordering of samples are visible in every queue and    *)
(* buffer.  Sample rates are scaled down (25 Hz, 50 Hz) so that one 40 ms  *)
(* chunk is one or two samples per channel.                                *)
(***************************************************************************)
EXTENDS Integers, Sequences, FiniteSets, TLC

\* ----------------------------------------------------------------- bounds
\* total number of samples the capture device delivers in one run
MaxSamples == 3
\* largest number of samples the device hands to one capture callback
MaxBatch == 3
\* largest number of batches waiting in the capture-samples queue
MaxQueue == 2

\* ------------------------------------------------------ program constants
\* chunk_duration = Duration::from_millis(40)
ChunkDurationMs == 40
\* the fill of an output buffer on entry to the playback callback (stale data)
Stale == 0 - 1

\* input_config.sample_rate(), scaled down
SampleRates == {25, 50}
\* input_config.channels()
ChannelCounts == {1, 2, 3}
\* lengths of the output buffer the device hands to the playback callback
OutputLens == {1, 3}

VARIABLES
    sample_rate,      \* input_config.sample_rate().0
    channels,         \* input_config.channels()
    tx_alive,         \* the capture stream still owns the sender tx
    rx,               \* capture-samples queue: batches sent and not yet received
    next_sample,      \* the next sample value the capture device delivers
    stop_pc,          \* the stdin thread: "waiting" or "done"
    finish_rx,        \* stop-signal queue
    state,            \* the coordinator's position in main
    exit,             \* "running", "ok" (main returned Ok) or "err" (main returned Err)
    sample_buffer,    \* main's sample_buffer
    encoded_chunks,   \* main's encoded_chunks
    chunk_idx,        \* position of "for chunk in encoded_chunks"
    playback_alive,   \* the output stream still owns playback_rx
    playback_rx,      \* playback-samples queue
    received,         \* history: concatenation of the batches the coordinator received
    sent_before_stop, \* history: the samples sent on tx before finish_tx.send(())
    encLog,           \* history: every call of encoder.encode: pcm, frame_size, ok
    decLog,           \* history: every call of decoder.decode: idx, frame_size, ok
    pushed,           \* history: frames for which playback_tx.send succeeded
    played,           \* history: frames the playback callback received
    cb,               \* history: the last playback callback invocation
    send_failed,      \* history: senders whose send found the receiver gone
    send_raised,      \* history: senders for which that failure raised an error
    audio_buffer,     \* an AudioBuffer: data, channels, position
    readout,          \* history: the get_next_chunk calls on audio_buffer so far
    call              \* history: the last call of a function checked on its own

\* the state of the pipeline: main, its threads and the device callbacks
pipeline_vars ==
    << sample_rate, channels, tx_alive, rx, next_sample, stop_pc, finish_rx,
       state, exit, sample_buffer, encoded_chunks, chunk_idx, playback_alive,
       playback_rx, received, sent_before_stop, encLog, decLog, pushed,
       played, cb, send_failed, send_raised >>

\* the state of the components main does not run: checked call by call
unit_vars == << audio_buffer, readout, call >>

vars == << pipeline_vars, unit_vars >>

\* --------------------------------------------------------------- helpers
RECURSIVE Flatten(_)
Flatten(ss) == IF ss = << >> THEN << >> ELSE Head(ss) \o Flatten(Tail(ss))

Min(a, b) == IF a <= b THEN a ELSE b

\* Rust's integer division truncates toward zero
TruncDiv(a, b) == IF a >= 0 THEN a \div b ELSE 0 - ((0 - a) \div b)

\* "x as i16": keep the low 16 bits
AsI16(x) == ((x + 32768) % 65536) - 32768

\* sample_buffer.drain(..n): the first n elements, and what is left
Take(s, n) == SubSeq(s, 1, n)
Drop(s, n) == SubSeq(s, n + 1, Len(s))

\* samples_per_chunk = (sample_rate as u128 * chunk_duration.as_nanos()
\*                      / 1_000_000_000) as usize
\* (40_000_000 ns / 1_000_000_000 reduced by 10^6: the quotient is the same)
SamplesPerChunk(sr) == (sr * ChunkDurationMs) \div 1000

samples_per_chunk == SamplesPerChunk(sample_rate)

\* channels.min(2): the channel count of the encoder and of the decoder
CodecChannels(ch) == Min(ch, 2)

\* ------------------------------------------------------ capture callback
\* input.chunks(channels as usize): groups of ch samples, the last one shorter
RECURSIVE Chunks(_, _)
Chunks(input, ch) ==
    IF input = << >> THEN << >>
    ELSE << Take(input, Min(ch, Len(input))) >> \o Chunks(Drop(input, Min(ch, Len(input))), ch)

\* the sum of the samples of one group at the indices of one parity
\* (parity 0: i % 2 == 0, "left"; parity 1: "right"), indices from 0
RECURSIVE SumParity(_, _, _)
SumParity(group, i, parity) ==
    IF i >= Len(group) THEN 0
    ELSE (IF i % 2 = parity THEN group[i + 1] ELSE 0) + SumParity(group, i + 1, parity)

\* one iteration of "for chunk in input.chunks(channels)": the pair pushed
DownmixGroup(group, ch) ==
    << AsI16(TruncDiv(SumParity(group, 0, 0), ch \div 2)),
       AsI16(TruncDiv(SumParity(group, 0, 1), ch \div 2)) >>

RECURSIVE DownmixGroups(_, _)
DownmixGroups(groups, ch) ==
    IF groups = << >> THEN << >>
    ELSE DownmixGroup(Head(groups), ch) \o DownmixGroups(Tail(groups), ch)

\* faulty variant of HandleInputDataI16: only mono input is passed through
HandleInputDataI16_MonoOnly(input, ch) ==
    IF ch <= 1 THEN input ELSE DownmixGroups(Chunks(input, ch), ch)

\* handle_input_data_i16: the batch sent on tx
HandleInputDataI16(input, ch) ==
    IF ch <= 2 THEN input ELSE DownmixGroups(Chunks(input, ch), ch)

\* the samples the device delivers next: n consecutive values
DeviceInput(n) == [i \in 1..n |-> next_sample + i - 1]

\* ------------------------------------------------------------ the codec
\* opus_encode (the external engine): on success the packet, which stands for
\* the frame_size * channels samples the engine read from pcm (main never
\* passes a shorter pcm); ok is the engine's verdict on this frame
OpusEncodeEngine(pcm, frame_size, cc, ok) ==
    IF ok THEN [ok |-> TRUE, data |-> Take(pcm, Min(frame_size * cc, Len(pcm)))]
    ELSE [ok |-> FALSE, data |-> << >>]

\* OpusEncoder::encode: Ok(data) or Err; the buffer of MAX_DATA_BYTES is cut
\* to the length the engine reports
OpusEncoderEncode(pcm, frame_size, cc, ok) == OpusEncodeEngine(pcm, frame_size, cc, ok)

\* opus_decode (the external engine): a packet of n samples per channel needs
\* room for n; on success the engine writes n * channels samples and returns n
OpusDecodeEngine(data, frame_size, cc, ok) ==
    IF ok /\ Len(data) \div cc <= frame_size
    THEN [ok |-> TRUE, ret |-> Len(data) \div cc, samples |-> data]
    ELSE [ok |-> FALSE, ret |-> 0, samples |-> << >>]

\* faulty variant of OpusDecoderDecodeInto: the buffer length is not checked
OpusDecoderDecodeInto_NoGuard(data, pcm, frame_size, cc, ok) ==
    LET r == OpusDecodeEngine(data, frame_size, cc, ok)
    IN  IF r.ok
        THEN [ok |-> TRUE, err |-> "none", called |-> TRUE, len |-> r.ret,
              pcm |-> [i \in 1..Len(pcm) |->
                         IF i <= Len(r.samples) THEN r.samples[i] ELSE pcm[i]]]
        ELSE [ok |-> FALSE, err |-> "engine", called |-> TRUE, len |-> 0, pcm |-> pcm]

\* OpusDecoder::decode_into (default build): the guard on the buffer length,
\* then the engine call; Ok(len) with the buffer as the engine left it, or Err
OpusDecoderDecodeInto(data, pcm, frame_size, cc, ok) ==
    IF Len(pcm) < frame_size * cc
    THEN [ok |-> FALSE, err |-> "BufferTooSmall", called |-> FALSE, len |-> 0, pcm |-> pcm]
    ELSE LET r == OpusDecodeEngine(data, frame_size, cc, ok)
         IN  IF r.ok
             THEN [ok |-> TRUE, err |-> "none", called |-> TRUE, len |-> r.ret,
                   pcm |-> [i \in 1..Len(pcm) |->
                              IF i <= Len(r.samples) THEN r.samples[i] ELSE pcm[i]]]
             ELSE [ok |-> FALSE, err |-> "engine", called |-> TRUE, len |-> 0, pcm |-> pcm]

\* OpusDecoder::decode: pcm = vec![0; frame_size * channels];
\* len = decode_into(..)?; pcm.truncate(len); Ok(pcm)
OpusDecoderDecode(data, frame_size, cc, ok) ==
    LET r == OpusDecoderDecodeInto(data, [i \in 1..(frame_size * cc) |-> 0],
                                   frame_size, cc, ok)
    IN  IF r.ok THEN [ok |-> TRUE, pcm |-> Take(r.pcm, Min(r.len, Len(r.pcm)))]
        ELSE [ok |-> FALSE, pcm |-> << >>]

\* --------------------------------------------------- coordinator helpers
\* samples_per_chunk * channels as usize
ChunkSamples == samples_per_chunk * channels

\* while sample_buffer.len() >= samples_per_chunk * channels as usize
HasFullChunk(buf) == Len(buf) >= ChunkSamples

\* faulty variant of DrainChunk: the drain forgets the channel count and removes
\* only samples_per_chunk samples
DrainChunk_KeepsTail(buf) ==
    [chunk |-> Take(buf, ChunkSamples), rest |-> Drop(buf, samples_per_chunk)]

\* sample_buffer.drain(..samples_per_chunk * channels as usize).collect()
DrainChunk(buf) == [chunk |-> Take(buf, ChunkSamples), rest |-> Drop(buf, ChunkSamples)]

\* faulty variant of PushEncoded: every chunk is stored with the full chunk size
PushEncoded_FullSize(chunks, r, frame_size) ==
    IF r.ok THEN Append(chunks, [data |-> r.data, frame_size |-> samples_per_chunk])
    ELSE chunks

\* the Ok arm of the match on encoder.encode: encoded_chunks.push(..);
\* the Err arm only prints
PushEncoded(chunks, r, frame_size) ==
    IF r.ok THEN Append(chunks, [data |-> r.data, frame_size |-> frame_size]) ELSE chunks

\* faulty variant of EncodeChunks: an encode error breaks out of the while loop
RECURSIVE EncodeChunks_BreakOnError(_, _, _, _, _)
EncodeChunks_BreakOnError(buf, chunks, log, fails, i) ==
    IF Len(buf) >= samples_per_chunk * channels
    THEN LET chunk == Take(buf, samples_per_chunk * channels)
             rest == Drop(buf, samples_per_chunk * channels)
             ok == i \notin fails
             entry == [pcm |-> chunk, frame_size |-> samples_per_chunk, ok |-> ok]
         IN  IF ok
             THEN EncodeChunks_BreakOnError(
                      rest,
                      Append(chunks, [data |-> Take(chunk, samples_per_chunk
                                                           * CodecChannels(channels)),
                                      frame_size |-> samples_per_chunk]),
                      Append(log, entry), fails, i + 1)
             ELSE [buf |-> rest, chunks |-> chunks, log |-> Append(log, entry)]
    ELSE [buf |-> buf, chunks |-> chunks, log |-> log]

\* faulty variant of EncodeChunks: a single check instead of the while loop
EncodeChunks_Once(buf, chunks, log, fails, i) ==
    IF HasFullChunk(buf)
    THEN LET d == DrainChunk(buf)
             r == OpusEncoderEncode(d.chunk, samples_per_chunk,
                                    CodecChannels(channels), i \notin fails)
         IN  [buf |-> d.rest,
              chunks |-> PushEncoded(chunks, r, samples_per_chunk),
              log |-> Append(log, [pcm |-> d.chunk, frame_size |-> samples_per_chunk,
                                   ok |-> r.ok])]
    ELSE [buf |-> buf, chunks |-> chunks, log |-> log]

\* "Process complete chunks": the while loop, iteration i; fails is the set of
\* iterations for which the engine reports an error
RECURSIVE EncodeChunks(_, _, _, _, _)
EncodeChunks(buf, chunks, log, fails, i) ==
    IF HasFullChunk(buf)
    THEN LET d == DrainChunk(buf)
             r == OpusEncoderEncode(d.chunk, samples_per_chunk,
                                    CodecChannels(channels), i \notin fails)
         IN  EncodeChunks(d.rest,
                          PushEncoded(chunks, r, samples_per_chunk),
                          Append(log, [pcm |-> d.chunk, frame_size |-> samples_per_chunk,
                                       ok |-> r.ok]),
                          fails, i + 1)
    ELSE [buf |-> buf, chunks |-> chunks, log |-> log]

\* faulty variant of FinalFrameSize: the sample count is not divided by channels
FinalFrameSize_NoChannels(buf) == Len(buf)

\* let frame_size = sample_buffer.len() / channels as usize
FinalFrameSize(buf) == Len(buf) \div channels

\* rx.try_recv() on the playback queue: the frame, if any, and the queue left
TryRecv(q) ==
    IF q = << >> THEN [got |-> FALSE, data |-> << >>, rest |-> q]
    ELSE [got |-> TRUE, data |-> Head(q), rest |-> Tail(q)]

\* faulty variant of WriteOutput: the buffer beyond a short frame is zeroed
WriteOutput_ZeroFill(output, data) ==
    [i \in 1..Len(output) |-> IF i <= Len(data) THEN data[i] ELSE 0]

\* the loop of handle_output_data_i16: output[i] = data[i] for i < output.len()
WriteOutput(output, data) ==
    [i \in 1..Len(output) |-> IF i <= Len(data) THEN data[i] ELSE output[i]]

\* faulty variant of HandleOutputDataI16: an underrun writes silence
HandleOutputDataI16_Silence(output, q) ==
    LET r == TryRecv(q)
    IN  [got |-> r.got, data |-> r.data, rest |-> r.rest,
         output |-> IF r.got THEN WriteOutput(output, r.data)
                    ELSE [i \in 1..Len(output) |-> 0]]

\* handle_output_data_i16: the output buffer on return and the queue left
HandleOutputDataI16(output, q) ==
    LET r == TryRecv(q)
    IN  [got |-> r.got, data |-> r.data, rest |-> r.rest,
         output |-> IF r.got THEN WriteOutput(output, r.data) ELSE output]

\* ------------------------------------------------------------------ Init
\* main before its first select!: queues and buffers empty, nothing logged
PipelineStart ==
    /\ tx_alive = TRUE
    /\ rx = << >>
    /\ next_sample = 1
    /\ stop_pc = "waiting"
    /\ finish_rx = << >>
    /\ state = "Capturing"
    /\ exit = "running"
    /\ sample_buffer = << >>
    /\ encoded_chunks = << >>
    /\ chunk_idx = 1
    /\ playback_alive = FALSE
    /\ playback_rx = << >>
    /\ received = << >>
    /\ sent_before_stop = << >>
    /\ encLog = << >>
    /\ decLog = << >>
    /\ pushed = << >>
    /\ played = << >>
    /\ cb = [calls |-> 0, got |-> FALSE, before |-> << >>, after |-> << >>, removed |-> 0]
    /\ send_failed = {}
    /\ send_raised = {}

\* no AudioBuffer exists and no function has been called on its own
NoBuffer == [data |-> << >>, channels |-> 0, position |-> 0]
NoReadout == [sizes |-> {}, chunks |-> << >>, done |-> FALSE, last |-> "none",
              before |-> 0]
NoCall == [fn |-> "none"]

UnitIdle ==
    /\ audio_buffer = NoBuffer
    /\ readout = NoReadout
    /\ call = NoCall

Init ==
    /\ sample_rate \in SampleRates
    /\ channels \in ChannelCounts
    /\ PipelineStart
    /\ UnitIdle

\* the receivers rx and finish_rx are locals of main: gone once main returned
MainAlive == exit = "running"

\* --------------------------------------------------- the capture device
\* The device calls the capture callback with n samples:
\* handle_input_data_i16(data, &tx, channels); a failed send is dropped by
\* unwrap_or_default()
CaptureCallback(n) ==
    /\ tx_alive
    /\ next_sample + n - 1 <= MaxSamples
    /\ LET batch == HandleInputDataI16(DeviceInput(n), channels)
       IN  IF MainAlive
           THEN /\ Len(rx) < MaxQueue
                /\ rx' = Append(rx, batch)
                /\ sent_before_stop' = IF stop_pc = "waiting"
                                       THEN sent_before_stop \o batch
                                       ELSE sent_before_stop
                /\ UNCHANGED send_failed
           ELSE /\ send_failed' = send_failed \cup {"capture"}
                /\ UNCHANGED << rx, sent_before_stop >>
    /\ next_sample' = next_sample + n
    /\ UNCHANGED << sample_rate, channels, tx_alive, stop_pc, finish_rx, state, exit,
                    sample_buffer, encoded_chunks, chunk_idx, playback_alive,
                    playback_rx, received, encLog, decLog, pushed, played, cb,
                    send_raised >>
    /\ UNCHANGED unit_vars

\* The device backend ends the input stream (a stream error): the callback,
\* and with it tx, is dropped
CaptureStreamError ==
    /\ tx_alive
    /\ MainAlive
    /\ tx_alive' = FALSE
    /\ UNCHANGED << sample_rate, channels, rx, next_sample, stop_pc, finish_rx, state,
                    exit, sample_buffer, encoded_chunks, chunk_idx, playback_alive,
                    playback_rx, received, sent_before_stop, encLog, decLog, pushed,
                    played, cb, send_failed, send_raised >>
    /\ UNCHANGED unit_vars

\* The stdin thread: read_line returns, then let _ = finish_tx.send(())
StopThread ==
    /\ stop_pc = "waiting"
    /\ stop_pc' = "done"
    /\ IF MainAlive
       THEN /\ finish_rx' = Append(finish_rx, "unit")
            /\ UNCHANGED send_failed
       ELSE /\ send_failed' = send_failed \cup {"stop"}
            /\ UNCHANGED finish_rx
    /\ UNCHANGED << sample_rate, channels, tx_alive, rx, next_sample, state, exit,
                    sample_buffer, encoded_chunks, chunk_idx, playback_alive,
                    playback_rx, received, sent_before_stop, encLog, decLog, pushed,
                    played, cb, send_raised >>
    /\ UNCHANGED unit_vars

\* ------------------------------------------------------- the coordinator
\* select! took recv(rx) -> Ok(data): sample_buffer.extend(data), then the
\* loop over the complete chunks
CoordRecvBatch ==
    /\ state = "Capturing"
    /\ MainAlive
    /\ rx # << >>
    /\ LET buf == sample_buffer \o Head(rx)
       IN  \E fails \in SUBSET (1..(Len(buf) \div ChunkSamples)) :
             LET r == EncodeChunks(buf, encoded_chunks, encLog, fails, 1)
             IN  /\ sample_buffer' = r.buf
                 /\ encoded_chunks' = r.chunks
                 /\ encLog' = r.log
    /\ received' = received \o Head(rx)
    /\ rx' = Tail(rx)
    /\ UNCHANGED << sample_rate, channels, tx_alive, next_sample, stop_pc, finish_rx,
                    state, exit, chunk_idx, playback_alive, playback_rx,
                    sent_before_stop, decLog, pushed, played, cb, send_failed,
                    send_raised >>
    /\ UNCHANGED unit_vars

\* select! took recv(rx) -> Err: the queue is empty and its sender is gone
CoordRecvClosed ==
    /\ state = "Capturing"
    /\ MainAlive
    /\ rx = << >>
    /\ ~tx_alive
    /\ state' = "Draining"
    /\ UNCHANGED << sample_rate, channels, tx_alive, rx, next_sample, stop_pc,
                    finish_rx, exit, sample_buffer, encoded_chunks, chunk_idx,
                    playback_alive, playback_rx, received, sent_before_stop, encLog,
                    decLog, pushed, played, cb, send_failed, send_raised >>
    /\ UNCHANGED unit_vars

\* faulty variant of CoordRecvStop: the stop signal is received and the loop
\* goes on
CoordRecvStop_Continue ==
    /\ state = "Capturing"
    /\ MainAlive
    /\ finish_rx # << >>
    /\ finish_rx' = Tail(finish_rx)
    /\ UNCHANGED << sample_rate, channels, tx_alive, rx, next_sample, stop_pc, state,
                    exit, sample_buffer, encoded_chunks, chunk_idx, playback_alive,
                    playback_rx, received, sent_before_stop, encLog, decLog, pushed,
                    played, cb, send_failed, send_raised >>
    /\ UNCHANGED unit_vars

\* select! took recv(finish_rx): break
CoordRecvStop ==
    /\ state = "Capturing"
    /\ MainAlive
    /\ finish_rx # << >>
    /\ finish_rx' = Tail(finish_rx)
    /\ state' = "Draining"
    /\ UNCHANGED << sample_rate, channels, tx_alive, rx, next_sample, stop_pc, exit,
                    sample_buffer, encoded_chunks, chunk_idx, playback_alive,
                    playback_rx, received, sent_before_stop, encLog, decLog, pushed,
                    played, cb, send_failed, send_raised >>
    /\ UNCHANGED unit_vars

\* "Process any remaining samples", then the decoder and the output stream
\* are set up (each step ends main with Err when it fails) and played
CoordFlush ==
    /\ state = "Draining"
    /\ MainAlive
    /\ \E ok \in BOOLEAN :
         IF sample_buffer # << >>
         THEN LET fs == FinalFrameSize(sample_buffer)
                  r == OpusEncoderEncode(sample_buffer, fs, CodecChannels(channels), ok)
              IN  /\ encoded_chunks' = PushEncoded(encoded_chunks, r, fs)
                  /\ encLog' = Append(encLog, [pcm |-> sample_buffer, frame_size |-> fs,
                                               ok |-> r.ok])
         ELSE /\ ok
              /\ UNCHANGED << encoded_chunks, encLog >>
    /\ \E setup_ok \in BOOLEAN :
         IF setup_ok
         THEN /\ state' = "PlayingBack"
              /\ playback_alive' = TRUE
              /\ UNCHANGED exit
         ELSE /\ exit' = "err"
              /\ UNCHANGED << state, playback_alive >>
    /\ UNCHANGED << sample_rate, channels, tx_alive, rx, next_sample, stop_pc,
                    finish_rx, sample_buffer, chunk_idx, playback_rx, received,
                    sent_before_stop, decLog, pushed, played, cb, send_failed,
                    send_raised >>
    /\ UNCHANGED unit_vars

\* one iteration of "for chunk in encoded_chunks": decode, then
\* playback_tx.send(decoded)? in the Ok arm; the Err arm only prints
CoordDecodeChunk ==
    /\ state = "PlayingBack"
    /\ MainAlive
    /\ chunk_idx <= Len(encoded_chunks)
    /\ \E ok \in BOOLEAN :
         LET chunk == encoded_chunks[chunk_idx]
             r == OpusDecoderDecode(chunk.data, chunk.frame_size,
                                    CodecChannels(channels), ok)
         IN  /\ decLog' = Append(decLog, [idx |-> chunk_idx,
                                          frame_size |-> chunk.frame_size, ok |-> r.ok])
             /\ IF r.ok
                THEN IF playback_alive
                     THEN /\ playback_rx' = Append(playback_rx, r.pcm)
                          /\ pushed' = Append(pushed, r.pcm)
                          /\ chunk_idx' = chunk_idx + 1
                          /\ UNCHANGED << exit, send_failed, send_raised >>
                     ELSE /\ send_failed' = send_failed \cup {"coordinator"}
                          /\ send_raised' = send_raised \cup {"coordinator"}
                          /\ exit' = "err"
                          /\ UNCHANGED << playback_rx, pushed, chunk_idx >>
                ELSE /\ chunk_idx' = chunk_idx + 1
                     /\ UNCHANGED << playback_rx, pushed, exit, send_failed, send_raised >>
    /\ UNCHANGED << sample_rate, channels, tx_alive, rx, next_sample, stop_pc,
                    finish_rx, state, sample_buffer, encoded_chunks, playback_alive,
                    received, sent_before_stop, encLog, played, cb >>
    /\ UNCHANGED unit_vars

\* faulty variant of CoordFinish: main sleeps and returns before the loop is over
CoordFinish_Early ==
    /\ state = "PlayingBack"
    /\ MainAlive
    /\ state' = "Done"
    /\ exit' = "ok"
    /\ UNCHANGED << sample_rate, channels, tx_alive, rx, next_sample, stop_pc,
                    finish_rx, sample_buffer, encoded_chunks, chunk_idx,
                    playback_alive, playback_rx, received, sent_before_stop, encLog,
                    decLog, pushed, played, cb, send_failed, send_raised >>
    /\ UNCHANGED unit_vars

\* the loop is over: std::thread::sleep(Duration::from_secs(1)); Ok(())
CoordFinish ==
    /\ state = "PlayingBack"
    /\ MainAlive
    /\ chunk_idx > Len(encoded_chunks)
    /\ state' = "Done"
    /\ exit' = "ok"
    /\ UNCHANGED << sample_rate, channels, tx_alive, rx, next_sample, stop_pc,
                    finish_rx, sample_buffer, encoded_chunks, chunk_idx,
                    playback_alive, playback_rx, received, sent_before_stop, encLog,
                    decLog, pushed, played, cb, send_failed, send_raised >>
    /\ UNCHANGED unit_vars

\* --------------------------------------------------- the playback device
\* The device calls the playback callback with an output buffer of n stale
\* samples: handle_output_data_i16(data, &playback_rx)
PlaybackCallback(n) ==
    /\ state = "PlayingBack"
    /\ MainAlive
    /\ playback_alive
    /\ LET before == [i \in 1..n |-> Stale]
           r == HandleOutputDataI16(before, playback_rx)
       IN  /\ playback_rx' = r.rest
           /\ played' = IF r.got THEN Append(played, r.data) ELSE played
           /\ cb' = [calls |-> Min(cb.calls + 1, 1), got |-> r.got, before |-> before,
                     after |-> r.output, removed |-> Len(playback_rx) - Len(r.rest)]
    /\ UNCHANGED << sample_rate, channels, tx_alive, rx, next_sample, stop_pc,
                    finish_rx, state, exit, sample_buffer, encoded_chunks, chunk_idx,
                    playback_alive, received, sent_before_stop, encLog, decLog,
                    pushed, send_failed, send_raised >>
    /\ UNCHANGED unit_vars

\* The device backend ends the output stream (a stream error): the callback,
\* and with it playback_rx, is dropped
PlaybackStreamError ==
    /\ state = "PlayingBack"
    /\ MainAlive
    /\ playback_alive
    /\ playback_alive' = FALSE
    /\ UNCHANGED << sample_rate, channels, tx_alive, rx, next_sample, stop_pc,
                    finish_rx, state, exit, sample_buffer, encoded_chunks, chunk_idx,
                    playback_rx, received, sent_before_stop, encLog, decLog, pushed,
                    played, cb, send_failed, send_raised >>
    /\ UNCHANGED unit_vars

\* ------------------------------------------------------ specifications
Capture == \E n \in 0..MaxBatch : CaptureCallback(n)

Playback == \E n \in OutputLens : PlaybackCallback(n)

Next ==
    \/ Capture
    \/ CaptureStreamError
    \/ StopThread
    \/ CoordRecvBatch
    \/ CoordRecvClosed
    \/ CoordRecvStop
    \/ CoordFlush
    \/ CoordDecodeChunk
    \/ CoordFinish
    \/ Playback
    \/ PlaybackStreamError

Spec == Init /\ [][Next]_vars

\* select! picks at random among the ready operations, so a receive that stays
\* ready is eventually taken; the coordinator thread itself keeps running
FairSpec ==
    /\ Spec
    /\ WF_vars(CoordRecvStop)

\* =================================================================== claims
\* the concatenation of the chunks handed to encoder.encode so far
HandedSamples == Flatten([i \in 1..Len(encLog) |-> encLog[i].pcm])

\* main is past "Process any remaining samples"
Flushed == state \in {"PlayingBack", "Done"} \/ (state = "Draining" /\ exit = "err")

IsPrefix(s, t) == Len(s) <= Len(t) /\ SubSeq(t, 1, Len(s)) = s

\* the frame sizes of the stored chunks, in order
FrameSizes == [i \in 1..Len(encoded_chunks) |-> encoded_chunks[i].frame_size]

\* floor(T / cs) chunks of cs, then T mod cs when that is not zero
ExpectedFrameSizes(T, cs) ==
    [i \in 1..(T \div cs) |-> cs] \o (IF T % cs # 0 THEN << T % cs >> ELSE << >>)

\* C1: the chunks handed to encode, in order (every full chunk, then the final
\* partial chunk), concatenate to exactly the received batches: before the
\* flush what is missing is exactly the accumulator, after it nothing is
C1_ChunkingComplete ==
    /\ ~Flushed => HandedSamples \o sample_buffer = received
    /\ Flushed => HandedSamples = received

\* C1 witness: three samples arrived in more than one batch and left as a full
\* chunk followed by a partial final chunk
C1_Witness ==
    /\ Flushed
    /\ Len(received) = 3
    /\ Len(encLog) = 2
    /\ Len(encLog[1].pcm) = 2
    /\ Len(encLog[2].pcm) = 1
    /\ next_sample > 3

\* C2: once main is past the flush, every sample sent on the capture queue
\* before the stop signal was sent has been received by the coordinator
C2_NoSampleSentBeforeStopLost ==
    (Flushed /\ stop_pc = "done") => IsPrefix(sent_before_stop, received)

\* C3: chunk_size is sample_rate * 40 / 1000 (1920 at 48000 Hz); when T samples
\* per channel were received and every encode succeeded, the chunk list holds
\* floor(T / chunk_size) chunks of chunk_size, then T mod chunk_size if not zero
C3_ChunkSizing ==
    /\ SamplesPerChunk(48000) = 1920
    /\ ExpectedFrameSizes(4800, SamplesPerChunk(48000)) = << 1920, 1920, 960 >>
    /\ ( /\ Flushed
         /\ Len(received) % channels = 0
         /\ \A i \in 1..Len(encLog) : encLog[i].ok )
       => FrameSizes = ExpectedFrameSizes(Len(received) \div channels, samples_per_chunk)

\* C3 witness: mono, 3 samples per channel at chunk_size 2, every encode
\* succeeded: a chunk of 2 and a trailing chunk of 1
C3_Witness ==
    /\ Flushed
    /\ channels = 1
    /\ samples_per_chunk = 2
    /\ Len(received) = 3
    /\ \A i \in 1..Len(encLog) : encLog[i].ok
    /\ FrameSizes = << 2, 1 >>

\* C4: once the stop signal is in the stop queue, the coordinator eventually
\* leaves Capturing, whatever the capture callback keeps sending
C4_StopHonoured == (finish_rx # << >>) ~> (state # "Capturing")

\* C4 witness: the stop signal is waiting while the capture queue is full
C4_Witness ==
    /\ state = "Capturing"
    /\ finish_rx # << >>
    /\ Len(rx) = MaxQueue

\* the frames of the successful decodes, in order; the last one is missing
\* when its send ended main
RECURSIVE DecodedFrames(_)
DecodedFrames(log) ==
    IF log = << >> THEN << >>
    ELSE LET e == log[Len(log)]
             c == encoded_chunks[e.idx]
             front == DecodedFrames(SubSeq(log, 1, Len(log) - 1))
         IN  IF e.ok
             THEN Append(front, OpusDecoderDecode(c.data, c.frame_size,
                                                  CodecChannels(channels), TRUE).pcm)
             ELSE front

\* main ended in playback_tx.send(decoded)?
SendAborted == "coordinator" \in send_raised

\* every stored chunk has been visited by the playback loop, in order
AllChunksDecoded ==
    /\ Len(decLog) = Len(encoded_chunks)
    /\ \A k \in 1..Len(decLog) : decLog[k].idx = k
    /\ pushed = DecodedFrames(decLog)

\* C5: the state moves only Capturing -> Draining -> PlayingBack -> Done; it
\* leaves Capturing only on a closed capture queue or on the stop signal, and
\* enters Done only when every stored chunk has been decoded and pushed or
\* skipped
C5_Lifecycle ==
    [][ /\ state' # state =>
            << state, state' >> \in { << "Capturing", "Draining" >>,
                                      << "Draining", "PlayingBack" >>,
                                      << "PlayingBack", "Done" >> }
        /\ (state = "Capturing" /\ state' # "Capturing") =>
            \/ rx = << >> /\ ~tx_alive
            \/ finish_rx # << >> /\ finish_rx' = Tail(finish_rx)
        /\ state' = "Done" => AllChunksDecoded
      ]_vars

\* C5 witness: Done after two stored chunks, one decoded and pushed, one skipped
C5_Witness ==
    /\ state = "Done"
    /\ Len(encoded_chunks) = 2
    /\ Len(pushed) = 1
    /\ \E k \in 1..Len(decLog) : ~decLog[k].ok

\* the chunks the successful encodes of a log produce, in order
RECURSIVE OkChunks(_)
OkChunks(log) ==
    IF log = << >> THEN << >>
    ELSE LET e == log[Len(log)]
             front == OkChunks(SubSeq(log, 1, Len(log) - 1))
         IN  IF e.ok
             THEN Append(front,
                         [data |-> Take(e.pcm, e.frame_size * CodecChannels(channels)),
                          frame_size |-> e.frame_size])
             ELSE front

\* the encode calls so far that were given a full chunk by the while loop
FullChunkCalls == IF Flushed /\ sample_buffer # << >> THEN Len(encLog) - 1 ELSE Len(encLog)

\* C6: a failed encode removes its chunk from the accumulator and appends
\* nothing, and the chunks after it are still encoded and appended in order; a
\* failed decode pushes nothing, and the stored chunks after it are still
\* decoded and pushed: no codec failure ends either loop
C6_CodecFailureSkipsChunk ==
    /\ encoded_chunks = OkChunks(encLog)
    /\ FullChunkCalls = Len(received) \div ChunkSamples
    /\ Len(sample_buffer) = Len(received) % ChunkSamples
    /\ \A k \in 1..Len(decLog) : decLog[k].idx = k
    /\ (state = "PlayingBack" /\ ~SendAborted) => Len(decLog) = chunk_idx - 1
    /\ ~SendAborted => pushed = DecodedFrames(decLog)
    /\ SendAborted => /\ decLog[Len(decLog)].ok
                      /\ ~playback_alive
                      /\ Append(pushed, OpusDecoderDecode(
                                   encoded_chunks[chunk_idx].data,
                                   encoded_chunks[chunk_idx].frame_size,
                                   CodecChannels(channels), TRUE).pcm)
                         = DecodedFrames(decLog)
    /\ state = "Done" => Len(decLog) = Len(encoded_chunks)
    /\ exit = "err" => \/ SendAborted
                       \/ state = "Draining"

\* C6 witness: an encode failed and a later chunk was stored; a decode failed
\* and a later stored chunk was decoded and pushed
C6_Witness ==
    /\ state = "Done"
    /\ \E i, j \in 1..Len(encLog) : i < j /\ ~encLog[i].ok /\ encLog[j].ok
    /\ \E i, j \in 1..Len(decLog) : i < j /\ ~decLog[i].ok /\ decLog[j].ok
    /\ Len(pushed) = 1

\* C7: the stored chunks are decoded in the order they were appended, each
\* with the frame_size it was encoded with, and the playback callback receives
\* the successfully decoded frames in that order, none twice
C7_PlaybackOrder ==
    /\ \A k \in 1..Len(decLog) :
         /\ decLog[k].idx = k
         /\ decLog[k].frame_size = OkChunks(encLog)[k].frame_size
    /\ IsPrefix(pushed, DecodedFrames(decLog))
    /\ played \o playback_rx = pushed

\* C7 witness: the callback received two different frames, a third chunk in
\* between having failed to decode
C7_Witness ==
    /\ Len(played) = 2
    /\ played[1] # played[2]
    /\ Len(decLog) = 3
    /\ ~decLog[2].ok

\* C8: when the coordinator reaches Done, the playback callback has received
\* every frame pushed onto the playback queue
C8_AllFramesPlayed == state = "Done" => (played = pushed /\ playback_rx = << >>)

\* C9: no sender whose send found the receiver gone raised an error or ended
\* its loop
C9_SendFailuresIgnored == send_raised = {} /\ ~(exit = "err" /\ state = "PlayingBack")

\* C10: a playback callback does one non-blocking receive: on an empty queue
\* it leaves the whole output buffer unchanged, and it never removes more than
\* one frame
C10_UnderrunPolicy ==
    cb.calls > 0 =>
        /\ cb.removed = (IF cb.got THEN 1 ELSE 0)
        /\ ~cb.got => cb.after = cb.before
        /\ Len(cb.after) = Len(cb.before)
        /\ Len(played) + Len(playback_rx) = Len(pushed)

\* C10 witness: a callback on an empty queue with a buffer of three samples,
\* after an earlier callback had received a frame
C10_Witness ==
    /\ cb.calls > 0
    /\ ~cb.got
    /\ Len(cb.before) = 3
    /\ Len(played) = 1

\* ======================================================= components alone
\* The specifications below call one function at a time with inputs drawn
\* from bounded sets; the pipeline does not run in them.
PipelineOff ==
    /\ sample_rate = 25
    /\ channels = 1
    /\ PipelineStart

\* the sequences over S of length at most n
SeqsUpTo(S, n) == UNION { [1..k -> S] : k \in 0..n }

\* ------------------------------------------------- handle_input_data_i16
\* longest input of one capture callback
MaxInputLen == 6
\* signed 16-bit samples: both ends of the range and a small value
SampleValues == {0 - 32768, 1, 32767}
\* input_config.channels() of the capture device
DownmixChannels == {1, 2, 3, 4, 6}

\* the batches one call of handle_input_data_i16 sends on tx: each branch
\* sends once
HandleInputSends(input, ch) == << HandleInputDataI16(input, ch) >>

\* The device calls the capture callback with the input drawn at the start
HandleInputCall ==
    /\ call.fn = "handle_input_data_i16"
    /\ ~call.done
    /\ call' = [call EXCEPT !.done = TRUE,
                            !.sent = HandleInputSends(call.input, call.channels)]
    /\ UNCHANGED << pipeline_vars, audio_buffer, readout >>

DownmixInit ==
    /\ PipelineOff
    /\ audio_buffer = NoBuffer
    /\ readout = NoReadout
    /\ \E ch \in DownmixChannels, input \in SeqsUpTo(SampleValues, MaxInputLen) :
         call = [fn |-> "handle_input_data_i16", done |-> FALSE, channels |-> ch,
                 input |-> input, sent |-> << >>]

DownmixNext == HandleInputCall

DownmixSpec == DownmixInit /\ [][DownmixNext]_vars

\* the sum of f over the finite set S of integers
RECURSIVE SumOver(_, _)
SumOver(f, S) ==
    IF S = {} THEN 0
    ELSE LET x == CHOOSE y \in S : TRUE IN f[x] + SumOver(f, S \ {x})

\* what C11 says is pushed for an input of whole N-channel groups: per group,
\* (sum at even indices) / (N/2), then (sum at odd indices) / (N/2)
ExpectedDownmix(input, N) ==
    [k \in 1..(2 * (Len(input) \div N)) |->
        LET g == (k - 1) \div 2
            parity == (k - 1) % 2
            idx == { i \in 0..(N - 1) : i % 2 = parity }
        IN  TruncDiv(SumOver([i \in idx |-> input[g * N + i + 1]], idx), N \div 2)]

\* C11: for N > 2 channels and an input of whole groups, the one batch pushed
\* holds per group (sum at even indices) / (N/2) then (sum at odd indices) /
\* (N/2), integer division, in group order; 6-channel [1,2,3,4,5,6] gives [3,4]
C11_DownmixFormula ==
    /\ HandleInputSends(<< 1, 2, 3, 4, 5, 6 >>, 6) = << << 3, 4 >> >>
    /\ ( /\ call.fn = "handle_input_data_i16"
         /\ call.done
         /\ call.channels > 2
         /\ Len(call.input) % call.channels = 0 )
       => call.sent = << ExpectedDownmix(call.input, call.channels) >>

\* C12: for 1 or 2 channels a call pushes exactly one batch, equal to the
\* input sample for sample
C12_StereoPassthrough ==
    (call.fn = "handle_input_data_i16" /\ call.done /\ call.channels \in {1, 2})
       => call.sent = << call.input >>

\* C12 witness: a stereo call with an odd number of samples, both ends of the
\* 16-bit range among them
C12_Witness ==
    /\ call.fn = "handle_input_data_i16"
    /\ call.done
    /\ call.channels = 2
    /\ call.input = << 32767, 0 - 32768, 1 >>
    /\ call.sent = << << 32767, 0 - 32768, 1 >> >>

\* ----------------------------------------- unsigned 16-bit sample formats
\* "x as u16": keep the low 16 bits
AsU16(x) == x % 65536

\* faulty variant of CaptureU16ToI16: the offset is one too small
CaptureU16ToI16_OffByOne(x) == AsI16(x - 32767)

\* the U16 input stream callback: (x as i32 - 32768) as i16
CaptureU16ToI16(x) == AsI16(x - 32768)

\* handle_output_data_u16: (*sample as i32 + 32768) as u16
PlaybackI16ToU16(sample) == AsU16(sample + 32768)

\* an unsigned sample is captured, then played back
U16RoundTrip ==
    /\ call.fn = "u16_round_trip"
    /\ ~call.done
    /\ call' = [call EXCEPT !.done = TRUE,
                            !.mid = CaptureU16ToI16(call.x),
                            !.back = PlaybackI16ToU16(CaptureU16ToI16(call.x))]
    /\ UNCHANGED << pipeline_vars, audio_buffer, readout >>

\* a signed sample is played back, then captured
I16RoundTrip ==
    /\ call.fn = "i16_round_trip"
    /\ ~call.done
    /\ call' = [call EXCEPT !.done = TRUE,
                            !.mid = PlaybackI16ToU16(call.x),
                            !.back = CaptureU16ToI16(PlaybackI16ToU16(call.x))]
    /\ UNCHANGED << pipeline_vars, audio_buffer, readout >>

\* every unsigned and every signed 16-bit value
ConvInit ==
    /\ PipelineOff
    /\ audio_buffer = NoBuffer
    /\ readout = NoReadout
    /\ \/ \E x \in 0..65535 :
            call = [fn |-> "u16_round_trip", done |-> FALSE, x |-> x, mid |-> 0, back |-> 0]
       \/ \E x \in (0 - 32768)..32767 :
            call = [fn |-> "i16_round_trip", done |-> FALSE, x |-> x, mid |-> 0, back |-> 0]

ConvNext == U16RoundTrip \/ I16RoundTrip

ConvSpec == ConvInit /\ [][ConvNext]_vars

\* C13: for every unsigned 16-bit x, x - 32768 is in the signed 16-bit range
\* (the capture conversion does not wrap) and the playback conversion returns
\* x; for every signed 16-bit s, playback then capture returns s
C13_U16RoundTrip ==
    /\ (call.fn = "u16_round_trip" /\ call.done) =>
          /\ call.mid = call.x - 32768
          /\ call.mid \in (0 - 32768)..32767
          /\ call.back = call.x
    /\ (call.fn = "i16_round_trip" /\ call.done) =>
          /\ call.mid = call.x + 32768
          /\ call.mid \in 0..65535
          /\ call.back = call.x

\* C13 witness: the unsigned value 0 became -32768 and came back as 0
C13_Witness ==
    /\ call.fn = "u16_round_trip"
    /\ call.done
    /\ call.x = 0
    /\ call.mid = 0 - 32768
    /\ call.back = 0

\* ------------------------------------------------------ resampler adapter
MaxOutLen == 2

\* a filter output sample y, written as the integer y * 32768
PlaneValues == {0 - 40000, 1, 40000}

\* "(y * 32768.0) as i16": a float-to-integer cast saturates
SatI16(v) == IF v > 32767 THEN 32767 ELSE IF v < 0 - 32768 THEN 0 - 32768 ELSE v

\* what resampler.process can hand back: an error, or one plane per channel,
\* all of the same length (possibly zero)
ProcessResults(ch) ==
    { [ok |-> FALSE, planes |-> << >>] } \cup
    UNION { { [ok |-> TRUE, planes |-> p] : p \in [1..ch -> [1..n -> PlaneValues]] } :
            n \in 0..MaxOutLen }

\* interleave the planes: frame i, then channel c
Interleave(planes, ch, n) ==
    [k \in 1..(n * ch) |-> SatI16(planes[((k - 1) % ch) + 1][((k - 1) \div ch) + 1])]

\* resample_audio: unwrap_or_default turns an error into an empty list of
\* planes, and output_f32[0] is then indexed
ResampleAudio(input, ch, result) ==
    LET output_f32 == IF result.ok THEN result.planes ELSE << >>
    IN IF Len(output_f32) = 0
         THEN [panicked |-> TRUE, output |-> << >>]
         ELSE [panicked |-> FALSE, output |-> Interleave(output_f32, ch, Len(output_f32[1]))]

ResampleCall ==
    /\ call.fn = "resample_audio"
    /\ ~call.done
    /\ call' = [call EXCEPT !.done = TRUE,
                            !.ret = ResampleAudio(call.input, call.channels, call.result)]
    /\ UNCHANGED << pipeline_vars, audio_buffer, readout >>

ResampleInit ==
    /\ PipelineOff
    /\ audio_buffer = NoBuffer
    /\ readout = NoReadout
    /\ \E ch \in {1, 2}, input \in SeqsUpTo({0, 1}, MaxSamples) :
         \E result \in ProcessResults(ch) :
            call = [fn |-> "resample_audio", done |-> FALSE, channels |-> ch,
                    input |-> input, result |-> result,
                    ret |-> [panicked |-> FALSE, output |-> << >>]]

ResampleNext == ResampleCall

ResampleSpec == ResampleInit /\ [][ResampleNext]_vars

\* the filter gave no output: an error, or planes without samples
NoFilterOutput(result) == ~result.ok \/ \A c \in 1..Len(result.planes) : Len(result.planes[c]) = 0

\* C14: when the filter yields no output for a call (an error or an empty
\* result), resample_audio returns an empty sample vector and does not panic
C14_NoOutputTolerated ==
    (call.fn = "resample_audio" /\ call.done /\ NoFilterOutput(call.result)) =>
        /\ ~call.ret.panicked
        /\ call.ret.output = << >>

\* ------------------------------------------------------------ AudioBuffer
MaxChunkSize == 2
MaxCalls == 5

\* AudioBuffer::new
AudioBufferNew(data, ch) == [data |-> data, channels |-> ch, position |-> 0]

\* faulty variant of GetNextChunk: an exhausted buffer starts over
GetNextChunk_WrapsAround(buf, chunk_size) ==
    IF buf.position >= Len(buf.data)
      THEN [buffer |-> [buf EXCEPT !.position = 0], some |-> FALSE, chunk |-> << >>]
      ELSE LET remaining == Len(buf.data) - buf.position
               chunk_samples == chunk_size * buf.channels
               take_samples == Min(chunk_samples, remaining)
           IN [buffer |-> [buf EXCEPT !.position = @ + take_samples],
               some |-> TRUE,
               chunk |-> SubSeq(buf.data, buf.position + 1, buf.position + take_samples)]

\* faulty variant of GetNextChunk: a trailing partial chunk is discarded
GetNextChunk_DropsPartial(buf, chunk_size) ==
    IF buf.position >= Len(buf.data) \/ Len(buf.data) - buf.position < chunk_size * buf.channels
      THEN [buffer |-> buf, some |-> FALSE, chunk |-> << >>]
      ELSE LET chunk_samples == chunk_size * buf.channels
           IN [buffer |-> [buf EXCEPT !.position = @ + chunk_samples],
               some |-> TRUE,
               chunk |-> SubSeq(buf.data, buf.position + 1, buf.position + chunk_samples)]

\* AudioBuffer::get_next_chunk: the buffer afterwards and the Option returned
GetNextChunk(buf, chunk_size) ==
    IF buf.position >= Len(buf.data)
      THEN [buffer |-> buf, some |-> FALSE, chunk |-> << >>]
      ELSE LET remaining == Len(buf.data) - buf.position
               chunk_samples == chunk_size * buf.channels
               take_samples == Min(chunk_samples, remaining)
           IN [buffer |-> [buf EXCEPT !.position = @ + take_samples],
               some |-> TRUE,
               chunk |-> SubSeq(buf.data, buf.position + 1, buf.position + take_samples)]

\* one call of get_next_chunk; readout remembers what the calls returned
GetNextChunkCall(chunk_size) ==
    /\ call.fn = "get_next_chunk"
    /\ LET r == GetNextChunk(audio_buffer, chunk_size)
       IN /\ r.some => Len(readout.chunks) < MaxCalls
          /\ audio_buffer' = r.buffer
          /\ readout' = [sizes |-> readout.sizes \cup {chunk_size},
                         chunks |-> IF r.some THEN Append(readout.chunks, r.chunk)
                                              ELSE readout.chunks,
                         done |-> readout.done \/ ~r.some,
                         last |-> IF r.some THEN "some" ELSE "none",
                         before |-> audio_buffer.position]
    /\ UNCHANGED << pipeline_vars, call >>

\* a fresh buffer over 1, 2, .., n
BufferInit ==
    /\ PipelineOff
    /\ readout = NoReadout
    /\ call = [fn |-> "get_next_chunk"]
    /\ \E n \in 0..MaxInputLen, ch \in {1, 2, 3} :
         audio_buffer = AudioBufferNew([i \in 1..n |-> i], ch)

BufferNext == \E chunk_size \in 0..MaxChunkSize : GetNextChunkCall(chunk_size)

BufferSpec == BufferInit /\ [][BufferNext]_vars

\* C15: across any get_next_chunk calls with any chunk sizes, position stays
\* within 0..data.length and never decreases, and a call made when
\* position = data.length returns nothing and changes neither position nor data
C15_CursorInvariant ==
    /\ [](call.fn = "get_next_chunk" =>
            audio_buffer.position \in 0..Len(audio_buffer.data))
    /\ [][call.fn = "get_next_chunk" =>
            /\ audio_buffer'.position >= audio_buffer.position
            /\ audio_buffer'.data = audio_buffer.data
            /\ (audio_buffer.position = Len(audio_buffer.data) =>
                    /\ readout'.last = "none"
                    /\ audio_buffer' = audio_buffer)]_vars

\* C15 witness: three samples were read in two chunks and the next call, made
\* at position = data.length, returned nothing
C15_Witness ==
    /\ call.fn = "get_next_chunk"
    /\ audio_buffer.data = << 1, 2, 3 >>
    /\ audio_buffer.position = 3
    /\ Len(readout.chunks) = 2
    /\ readout.last = "none"
    /\ readout.before = 3

\* the calls so far all used the chunk size cs and the last one returned nothing
ReadOutWith(cs) == readout.done /\ readout.last = "none" /\ readout.sizes = {cs}

\* C16: reading with one chunk size >= 1 until nothing is returned gives
\* chunks whose concatenation is the data; every chunk but the last has
\* chunk_size * channels samples and the last holds the rest, not padded and
\* not dropped
C16_Readout ==
    \A cs \in 1..(MaxChunkSize + 1) :
        (call.fn = "get_next_chunk" /\ ReadOutWith(cs)) =>
            LET full == cs * audio_buffer.channels
                n == Len(readout.chunks)
            IN /\ Flatten(readout.chunks) = audio_buffer.data
               /\ \A i \in 1..(n - 1) : Len(readout.chunks[i]) = full
               /\ n > 0 =>
                    /\ Len(readout.chunks[n]) = Len(audio_buffer.data) - (n - 1) * full
                    /\ Len(readout.chunks[n]) \in 1..full

\* C16 witness: three mono samples read with chunk size 2 came out as a full
\* chunk and a partial chunk of one sample
C16_Witness ==
    /\ call.fn = "get_next_chunk"
    /\ ReadOutWith(2)
    /\ audio_buffer.channels = 1
    /\ audio_buffer.data = << 1, 2, 3 >>
    /\ readout.chunks = << << 1, 2 >>, << 3 >> >>

\* ----------------------------------------------------- codec status mapping
MaxStatus == 120

\* libopus status codes named by OpusErrorCode
OPUS_BAD_ARG == 0 - 1
OPUS_BUFFER_TOO_SMALL == 0 - 2
OPUS_INTERNAL_ERROR == 0 - 3
OPUS_INVALID_PACKET == 0 - 4
OPUS_UNIMPLEMENTED == 0 - 5
OPUS_INVALID_STATE == 0 - 6
OPUS_ALLOC_FAIL == 0 - 7

\* enum OpusErrorCode
OpusErrorCode ==
    {"BadArg", "BufferTooSmall", "InternalError", "InvalidPacket",
     "Unimplemented", "InvalidState", "AllocFail"}

\* what the engine returns: one of its seven error codes, or a count >= 0
EngineStatuses ==
    {OPUS_BAD_ARG, OPUS_BUFFER_TOO_SMALL, OPUS_INTERNAL_ERROR, OPUS_INVALID_PACKET,
     OPUS_UNIMPLEMENTED, OPUS_INVALID_STATE, OPUS_ALLOC_FAIL} \cup 0..MaxStatus

\* faulty variant of FromErrno: an invalid state is reported as an internal error
FromErrno_Collapsed(errno) ==
    CASE errno = OPUS_BAD_ARG -> "BadArg"
      [] errno = OPUS_BUFFER_TOO_SMALL -> "BufferTooSmall"
      [] errno = OPUS_INTERNAL_ERROR -> "InternalError"
      [] errno = OPUS_INVALID_PACKET -> "InvalidPacket"
      [] errno = OPUS_UNIMPLEMENTED -> "Unimplemented"
      [] errno = OPUS_INVALID_STATE -> "InternalError"
      [] errno = OPUS_ALLOC_FAIL -> "AllocFail"
      [] OTHER -> "unreachable"

\* OpusErrorCode::from_errno; any other value hits unreachable!
FromErrno(errno) ==
    CASE errno = OPUS_BAD_ARG -> "BadArg"
      [] errno = OPUS_BUFFER_TOO_SMALL -> "BufferTooSmall"
      [] errno = OPUS_INTERNAL_ERROR -> "InternalError"
      [] errno = OPUS_INVALID_PACKET -> "InvalidPacket"
      [] errno = OPUS_UNIMPLEMENTED -> "Unimplemented"
      [] errno = OPUS_INVALID_STATE -> "InvalidState"
      [] errno = OPUS_ALLOC_FAIL -> "AllocFail"
      [] OTHER -> "unreachable"

\* map_error!: ..0 => Err(from_errno(result)), 0.. => Ok(result)
MapError(result) ==
    IF result < 0
      THEN IF FromErrno(result) = "unreachable"
             THEN [kind |-> "panic", value |-> 0, err |-> "unreachable"]
             ELSE [kind |-> "Err", value |-> 0, err |-> FromErrno(result)]
      ELSE [kind |-> "Ok", value |-> result, err |-> "none"]

MapErrorCall ==
    /\ call.fn = "map_error"
    /\ ~call.done
    /\ call' = [call EXCEPT !.done = TRUE, !.ret = MapError(call.result)]
    /\ UNCHANGED << pipeline_vars, audio_buffer, readout >>

ErrInit ==
    /\ PipelineOff
    /\ audio_buffer = NoBuffer
    /\ readout = NoReadout
    /\ \E r \in EngineStatuses :
         call = [fn |-> "map_error", done |-> FALSE, result |-> r,
                 ret |-> [kind |-> "none", value |-> 0, err |-> "none"]]

ErrNext == MapErrorCall

ErrSpec == ErrInit /\ [][ErrNext]_vars

\* the error kind the codec documents for each negative status
KindOf(r) ==
    CASE r = 0 - 1 -> "BadArg"
      [] r = 0 - 2 -> "BufferTooSmall"
      [] r = 0 - 3 -> "InternalError"
      [] r = 0 - 4 -> "InvalidPacket"
      [] r = 0 - 5 -> "Unimplemented"
      [] r = 0 - 6 -> "InvalidState"
      [] r = 0 - 7 -> "AllocFail"

\* C17: every engine status r >= 0 comes back as success carrying r, every
\* negative one as the typed error of its kind, distinct codes giving distinct
\* kinds; the bridge returns nothing but a success or a typed error
C17_StatusMapping ==
    /\ \A r1, r2 \in (0 - 7)..(0 - 1) :
          r1 # r2 => MapError(r1).err # MapError(r2).err
    /\ (call.fn = "map_error" /\ call.done) =>
          /\ call.ret.kind \in {"Ok", "Err"}
          /\ call.result >= 0 =>
                (call.ret.kind = "Ok" /\ call.ret.value = call.result)
          /\ call.result < 0 =>
                /\ call.ret.kind = "Err"
                /\ call.ret.err \in OpusErrorCode
                /\ call.ret.err = KindOf(call.result)

\* C17 witness: the status OPUS_INVALID_STATE came back as the InvalidState error
C17_Witness ==
    /\ call.fn = "map_error"
    /\ call.done
    /\ call.result = 0 - 6
    /\ call.ret.kind = "Err"
    /\ call.ret.err = "InvalidState"

\* ------------------------------------------------- accumulator and encoder
\* C18: whenever the coordinator waits on the select!, the accumulator holds
\* fewer than chunk_size * channel_count samples, however many chunks the
\* last batch completed
C18_AccumulatorBound ==
    (state = "Capturing" /\ MainAlive) => Len(sample_buffer) < ChunkSamples

\* C18 witness: mono at 25 Hz (one sample per chunk); three samples, which one
\* batch can carry, were received and cut into three chunks, and the
\* coordinator waits again with an empty accumulator
C18_Witness ==
    /\ state = "Capturing"
    /\ MainAlive
    /\ channels = 1
    /\ ChunkSamples = 1
    /\ Len(received) = MaxBatch
    /\ Len(encLog) = MaxBatch
    /\ sample_buffer = << >>

\* C19: every chunk handed to the encoder has exactly frame_size * (the
\* encoder's channel count) samples, for every input channel count, when the
\* device delivered whole frames
C19_EncoderChunkSize ==
    (Len(received) % CodecChannels(channels) = 0) =>
        \A i \in 1..Len(encLog) :
            Len(encLog[i].pcm) = encLog[i].frame_size * CodecChannels(channels)

\* ------------------------------------------------------------ the decoder
\* packets for a decoder of cc channels: whole frames of samples
Packets(cc) == { d \in SeqsUpTo({1, 2}, MaxInputLen) : Len(d) % cc = 0 }

\* the result of decode_into before any call
NoInto == [ok |-> FALSE, err |-> "none", called |-> FALSE, len |-> 0, pcm |-> << >>]

\* OpusDecoder::decode called once; into is what its decode_into call
\* returned and n the count in it
DecodeCall ==
    /\ call.fn = "decode"
    /\ ~call.done
    /\ LET into == OpusDecoderDecodeInto(call.data,
                                         [i \in 1..(call.frame_size * call.channels) |-> 0],
                                         call.frame_size, call.channels, call.ok)
       IN call' = [call EXCEPT
                     !.done = TRUE,
                     !.n = into.len,
                     !.into = into,
                     !.ret = OpusDecoderDecode(call.data, call.frame_size, call.channels,
                                               call.ok)]
    /\ UNCHANGED << pipeline_vars, audio_buffer, readout >>

\* OpusDecoder::decode_into called once on the caller's buffer call.pcm
DecodeIntoCall ==
    /\ call.fn = "decode_into"
    /\ ~call.done
    /\ LET into == OpusDecoderDecodeInto(call.data, call.pcm, call.frame_size,
                                         call.channels, call.ok)
       IN call' = [call EXCEPT !.done = TRUE, !.n = into.len, !.into = into]
    /\ UNCHANGED << pipeline_vars, audio_buffer, readout >>

\* what the caller's buffer holds before the call
Untouched == 9

\* a call of decode, or a call of decode_into on a buffer of any length
DecodeInit ==
    /\ PipelineOff
    /\ audio_buffer = NoBuffer
    /\ readout = NoReadout
    /\ \E cc \in {1, 2}, frame_size \in 0..MaxSamples, ok \in BOOLEAN :
         \E data \in Packets(cc) :
            \/ call = [fn |-> "decode", done |-> FALSE, channels |-> cc, data |-> data,
                       frame_size |-> frame_size, ok |-> ok, n |-> 0,
                       pcm |-> << >>, into |-> NoInto,
                       ret |-> [ok |-> FALSE, pcm |-> << >>]]
            \/ \E len \in 0..MaxInputLen :
                 call = [fn |-> "decode_into", done |-> FALSE, channels |-> cc,
                         data |-> data, frame_size |-> frame_size, ok |-> ok, n |-> 0,
                         pcm |-> [i \in 1..len |-> Untouched], into |-> NoInto,
                         ret |-> [ok |-> FALSE, pcm |-> << >>]]

DecodeNext == DecodeCall \/ DecodeIntoCall

DecodeSpec == DecodeInit /\ [][DecodeNext]_vars

\* C20: when decode succeeds on a decoder of C channels and the engine
\* reports n samples per channel, the returned frame has exactly n * C samples
C20_DecodedFrameLength ==
    (call.fn = "decode" /\ call.done /\ call.ret.ok) =>
        Len(call.ret.pcm) = call.n * call.channels

\* C21: decode_into on a buffer shorter than frame_size * channels returns
\* BufferTooSmall without calling the engine and leaves the buffer as it was;
\* decode, which sizes its own buffer, never gets this error from the bridge
C21_BufferGuard ==
    /\ (call.fn = "decode_into" /\ call.done
           /\ Len(call.pcm) < call.frame_size * call.channels) =>
          /\ ~call.into.ok
          /\ call.into.err = "BufferTooSmall"
          /\ ~call.into.called
          /\ call.into.pcm = call.pcm
    /\ (call.fn = "decode" /\ call.done) =>
          /\ call.into.err # "BufferTooSmall"
          /\ call.into.called

\* C21 witness: a stereo decoder asked for one frame into a buffer of one
\* sample refused, with the engine able to decode the packet
C21_Witness ==
    /\ call.fn = "decode_into"
    /\ call.done
    /\ call.channels = 2
    /\ call.frame_size = 1
    /\ call.ok
    /\ call.data = << 1, 2 >>
    /\ call.pcm = << Untouched >>
    /\ call.into.err = "BufferTooSmall"
    /\ ~call.into.called

\* ------------------------------------------------- downmix before narrowing
\* left /= channels as i32 / 2 (parity 0) and right /= channels as i32 / 2
\* (parity 1): the 32-bit quotient, before "as i16"
DownmixQuotient(group, ch, parity) == TruncDiv(SumParity(group, 0, parity), ch \div 2)

\* C22: for every channel count N > 2 and any 16-bit inputs, left / (N/2) and
\* right / (N/2) of every group lie in the signed 16-bit range
C22_DownmixNeverWraps ==
    (call.fn = "handle_input_data_i16" /\ call.done /\ call.channels > 2) =>
        LET groups == Chunks(call.input, call.channels)
        IN  \A g \in 1..Len(groups), parity \in {0, 1} :
              DownmixQuotient(groups[g], call.channels, parity) \in (0 - 32768)..32767

\* --------------------------------------------------- playback write bounds
\* the frame the last playback callback received
LastFrame == played[Len(played)]

\* C23: a playback callback that receives a frame f for an output buffer o
\* writes the first min(|f|, |o|) samples of f to the same indices of o, leaves
\* the rest of o as it was and keeps o's length; the frame leaves the queue
\* whole, so what did not fit is not delivered later
C23_PlaybackWriteBounds ==
    (cb.calls > 0 /\ cb.got) =>
        /\ Len(cb.after) = Len(cb.before)
        /\ \A i \in 1..Len(cb.after) :
              cb.after[i] = (IF i <= Len(LastFrame) THEN LastFrame[i] ELSE cb.before[i])
        /\ cb.removed = 1
        /\ played \o playback_rx = pushed

\* C23 witness: a frame of two samples arrived for a buffer of one sample; the
\* first sample was written, the second is in no queue
C23_Witness ==
    /\ cb.calls > 0
    /\ cb.got
    /\ Len(cb.before) = 1
    /\ Len(LastFrame) = 2
    /\ cb.after = << LastFrame[1] >>
    /\ playback_rx = << >>

====
